---- MODULE Spec2Model ----
(***************************************************************************)
(* Model of the traversal-and-filter engine of pkg/v2/crud/traverse.go:    *)
(* the recursive descent of a traverser over a property tree, driven by a  *)
(* compiled path/filter expression, with the navigator as the one shared   *)
(* mutable cursor.  The call stack of the Go program is the variable       *)
(* stack; one action is one step of one function of the source.            *)
(*                                                                         *)
(* traverse.go holds two revisions of the file one after the other.  The   *)
(* model is of the second one (lines 195-414), the revision with           *)
(* addByEqFilterTraverse and updateValueByEqFilter.  The navigator, the    *)
(* property tree, the compiled expression and the filter evaluator live in *)
(* other packages and are modelled from their described contracts.         *)
(***************************************************************************)
EXTENDS Integers, Sequences, FiniteSets, TLC

VARIABLES
    emails,            \* the elements of the multi-valued attribute 'emails' of the resource
    primaryAnnotated,  \* schema: the boolean sub-attribute 'primary' carries the primary annotation
    t,                 \* the traverser value (configuration copied into every frame)
    query,             \* the compiled expression handed to the entry point
    nav,               \* navigator stack below the root property
    navErr,            \* navigator error state (sticky)
    stack,             \* call stack of the traversal, innermost frame last
    ret,               \* value returned by the frame that returned last
    result,            \* what the entry point returned
    cbLog,             \* callback invocations so far, in order
    evLog,             \* indexes handed to the filter evaluator so far, in order
    entryEmails        \* the collection as it was when the entry point was called

vars == <<emails, primaryAnnotated, t, query, nav, navErr, stack, ret, result,
          cbLog, evLog, entryEmails>>

----------------------------------------------------------------------------
(* Bounds                                                                  *)

MaxElems == 2

----------------------------------------------------------------------------
(* Typed raw values of properties                                          *)

S(s) == [t |-> "string", s |-> s, b |-> FALSE]
B(b) == [t |-> "boolean", s |-> "", b |-> b]
NilVal == [t |-> "nil", s |-> "", b |-> FALSE]

(* Schema: the resource is a complex property with a multi-valued complex  *)
(* 'emails' {type, value, primary}, a singular complex 'name' {givenName}  *)
(* and a simple 'userName'.                                                *)

ElemAttrs == {"type", "value", "primary"}

SubAttributes(names) ==
    CASE names = <<>> -> {"emails", "name", "userName"}
      [] names = <<"emails">> -> ElemAttrs
      [] names = <<"name">> -> {"givenName"}
      [] OTHER -> {}

AttrType(names) ==
    CASE names = <<"emails", "primary">> -> "boolean"
      [] names \in {<<>>, <<"emails">>, <<"name">>} -> "complex"
      [] OTHER -> "string"

AttrMultiValued(names) == names = <<"emails">>

(* Navigator positions: a stack of descents by name (Dot) or index (At).   *)

DotStep(n) == [k |-> "dot", n |-> n, i |-> 0]
AtStep(i) == [k |-> "at", n |-> "", i |-> i]

DotNames(p) ==
    LET d == SelectSeq(p, LAMBDA s : s.k = "dot")
    IN  [j \in 1..Len(d) |-> d[j].n]

\* Current().Attribute().MultiValued(): an element of a collection carries a
\* derived, singular attribute
MultiValued(p) ==
    /\ p # <<>>
    /\ p[Len(p)].k = "dot"
    /\ AttrMultiValued(DotNames(p))

NoErr == [kind |-> "ok", detail |-> ""]
None == [kind |-> "none", detail |-> ""]
Err(kind, detail) == [kind |-> kind, detail |-> detail]
IsError(r) == r.kind \notin {"ok", "none"}

\* Navigator.Dot: the pushed position and the error it leaves
Dot(p, e, name) ==
    IF e # NoErr THEN [stack |-> p, err |-> e]
    ELSE IF MultiValued(p) \/ AttrType(DotNames(p)) # "complex"
         THEN [stack |-> p, err |-> Err("InvalidPath", "not a complex property")]
    ELSE IF name \notin SubAttributes(DotNames(p))
         THEN [stack |-> p, err |-> Err("NoAttribute", name)]
    ELSE [stack |-> Append(p, DotStep(name)), err |-> NoErr]

\* Navigator.At on a collection of n elements
At(p, e, index, n) ==
    IF e # NoErr THEN [stack |-> p, err |-> e]
    ELSE IF ~MultiValued(p) \/ index < 0 \/ index >= n
         THEN [stack |-> p, err |-> Err("InvalidPath", "no element at index")]
    ELSE [stack |-> Append(p, AtStep(index)), err |-> NoErr]

\* Navigator.Retract pops one level, never the root
Retract(p) == IF Len(p) > 0 THEN SubSeq(p, 1, Len(p) - 1) ELSE p

----------------------------------------------------------------------------
(* Compiled expressions: a list of nodes linked by Next; a filter node     *)
(* carries its operands.                                                   *)

NilNode == [kind |-> "nil", token |-> ""]
PathNode(n) == [kind |-> "path", token |-> n]
Literal(tok) == [kind |-> "literal", token |-> tok]
Op(tok, l, r) == [kind |-> "op", token |-> tok, left |-> l, right |-> r]

Eq == "eq"

IsNil(n) == n.kind = "nil"
IsPath(n) == n.kind = "path"
IsLiteral(n) == n.kind = "literal"
IsRootOfFilter(n) == n.kind = "op"
Left(n) == IF n.kind = "op" THEN n.left ELSE NilNode
Right(n) == IF n.kind = "op" THEN n.right ELSE NilNode
Token(n) == n.token

\* the node at position qi of the expression q; past the end it is nil
NodeAt(q, qi) == IF qi \in 1..Len(q) THEN q[qi] ELSE NilNode

Work == "\"work\""
Home == "\"home\""
Other == "\"other\""

TypeEq(tok) == Op(Eq, PathNode("type"), Literal(tok))

Queries == {
    <<>>,
    <<PathNode("userName")>>,
    <<PathNode("userName"), PathNode("x")>>,
    <<PathNode("nosuch")>>,
    <<PathNode("name"), PathNode("givenName")>>,
    <<PathNode("name"), PathNode("nosuch")>>,
    <<PathNode("name"), TypeEq(Work)>>,
    <<PathNode("name"), TypeEq(Work), PathNode("givenName")>>,
    <<PathNode("emails")>>,
    <<PathNode("emails"), PathNode("value")>>,
    <<PathNode("emails"), PathNode("nosuch")>>,
    <<PathNode("emails"), PathNode("value"), PathNode("x")>>,
    <<PathNode("emails"), PathNode("value"), TypeEq(Work)>>,
    <<PathNode("emails"), TypeEq(Work), PathNode("value")>>,
    <<PathNode("emails"), TypeEq(Home), PathNode("value")>>,
    <<PathNode("emails"), TypeEq(Work), PathNode("type")>>,
    <<PathNode("emails"), TypeEq(Work), PathNode("nosuch")>>,
    <<PathNode("emails"), TypeEq(Work)>>,
    <<PathNode("emails"), TypeEq(Work), PathNode("value"), PathNode("x")>>,
    <<PathNode("emails"), TypeEq("true"), PathNode("value")>>,
    <<PathNode("emails"), Op(Eq, PathNode("primary"), Literal("true")), PathNode("value")>>,
    <<PathNode("emails"), Op(Eq, PathNode("primary"), Literal(Work)), PathNode("value")>>,
    <<PathNode("emails"), Op(Eq, PathNode("nosuch"), Literal(Work)), PathNode("value")>>,
    <<PathNode("emails"), Op(Eq, Literal(Work), Literal(Work)), PathNode("value")>>,
    <<PathNode("emails"), Op(Eq, Literal(Work), Literal(Work)), PathNode("value"),
      PathNode("x")>>,
    <<PathNode("emails"), Op(Eq, PathNode("type"), PathNode("value")), PathNode("value")>>,
    <<PathNode("emails"), Op("ne", PathNode("type"), Literal(Work)), PathNode("value")>>,
    <<PathNode("emails"), Op("and", TypeEq(Work), TypeEq(Other)), PathNode("value")>>,
    <<PathNode("emails"), Op("and", TypeEq(Work), Op(Eq, PathNode("primary"), Literal("true"))),
      PathNode("value")>>,
    <<PathNode("emails"), TypeEq(Work), TypeEq(Other), PathNode("value")>>
}

----------------------------------------------------------------------------
(* Filter evaluator                                                        *)

Unquote(tok) ==
    CASE tok = Work -> "work"
      [] tok = Home -> "home"
      [] tok = Other -> "other"
      [] OTHER -> ""

\* evaluator.normalize: the literal token as a value of the attribute's type
normalize(type, tok) ==
    CASE type = "string" /\ tok \in {Work, Home, Other} ->
            [err |-> NoErr, v |-> S(Unquote(tok))]
      [] type = "boolean" /\ tok \in {"true", "false"} ->
            [err |-> NoErr, v |-> B(tok = "true")]
      [] OTHER -> [err |-> Err("InvalidType", tok), v |-> NilVal]

RECURSIVE evaluate(_, _, _)
\* evaluator.evaluate of the filter on an element of the attribute names
evaluate(names, elem, filter) ==
    IF Token(filter) = "and" THEN
        LET l == evaluate(names, elem, Left(filter))
            r == evaluate(names, elem, Right(filter))
        IN  IF IsError(l.err) THEN l
            ELSE IF IsError(r.err) THEN r
            ELSE [err |-> NoErr, r |-> l.r /\ r.r]
    ELSE IF ~IsPath(Left(filter)) \/ ~IsLiteral(Right(filter))
         THEN [err |-> Err("InvalidFilter", "unsupported operands"), r |-> FALSE]
    ELSE IF Token(Left(filter)) \notin SubAttributes(names)
         THEN [err |-> Err("NoAttribute", Token(Left(filter))), r |-> FALSE]
    ELSE LET a == Token(Left(filter))
             n == normalize(AttrType(Append(names, a)), Token(Right(filter)))
         IN  IF IsError(n.err) THEN [err |-> n.err, r |-> FALSE]
             ELSE IF Token(filter) = Eq THEN [err |-> NoErr, r |-> elem[a] = n.v]
             ELSE [err |-> NoErr, r |-> elem[a] # n.v]

----------------------------------------------------------------------------
(* Property tree                                                           *)

NewValue == S("c@x")

InitElems ==
    {[type |-> S(ty), value |-> S("a@x"), primary |-> B(p)] :
        ty \in {"work", "home"}, p \in BOOLEAN}

RECURSIVE SeqsUpTo(_, _)
SeqsUpTo(set, n) ==
    IF n = 0 THEN {<<>>}
    ELSE LET shorter == SeqsUpTo(set, n - 1)
         IN  shorter \cup {Append(s, e) : s \in {x \in shorter : Len(x) = n - 1}, e \in set}

\* the children ForEachChild iterates at a multi-valued position
Children(p, coll) == IF MultiValued(p) THEN coll ELSE <<>>

\* the element a one-entry list value adds to a collection, when it conforms to the schema
ElementOf(names, m) == [a \in SubAttributes(names) |-> IF a \in DOMAIN m THEN m[a] ELSE NilVal]

Conforms(names, m) ==
    /\ DOMAIN m \subseteq SubAttributes(names)
    /\ \A a \in DOMAIN m : m[a].t \in {"nil", AttrType(Append(names, a))}

\* Navigator.Add of a list value at position p: the collection and the error it leaves
Add(p, coll, value) ==
    IF ~MultiValued(p)
    THEN [coll |-> coll, err |-> Err("InvalidPath", "not multi-valued")]
    ELSE IF \E j \in 1..Len(value) : ~Conforms(DotNames(p), value[j])
    THEN [coll |-> coll, err |-> Err("InvalidType", "element does not conform")]
    ELSE [coll |-> coll \o [j \in 1..Len(value) |-> ElementOf(DotNames(p), value[j])],
          err |-> NoErr]

----------------------------------------------------------------------------
(* Element strategies: whether the child at index is visited               *)

selectAllStrategy(annotated, coll, index) == TRUE

\* FindChild: the first child whose primary sub-property is true, -1 when none
truePrimary(coll) ==
    LET hits == {i \in 0..(Len(coll) - 1) : coll[i + 1]["primary"] = B(TRUE)}
    IN  IF hits = {} THEN -1 ELSE CHOOSE i \in hits : \A j \in hits : i <= j

\* variant: the primary sub-attribute is looked up by name, whatever its annotation
primaryOrFirstStrategy_AnyPrimary(annotated, coll, index) ==
    IF truePrimary(coll) # -1
    THEN index = truePrimary(coll)
    ELSE index = 0

\* variant: a child is compared with the primary one by value, not by identity
primaryOrFirstStrategy_ByValue(annotated, coll, index) ==
    IF annotated /\ truePrimary(coll) # -1
    THEN index \in 0..(Len(coll) - 1) /\ coll[index + 1] = coll[truePrimary(coll) + 1]
    ELSE index = 0

primaryOrFirstStrategy(annotated, coll, index) ==
    IF annotated /\ truePrimary(coll) # -1
    THEN index = truePrimary(coll)
    ELSE index = 0

elementStrategy(name, annotated, coll, index) ==
    IF name = "primaryOrFirstStrategy"
    THEN primaryOrFirstStrategy(annotated, coll, index)
    ELSE selectAllStrategy(annotated, coll, index)

----------------------------------------------------------------------------
(* The traverser                                                           *)

Idle == [addByEqFilter |-> FALSE, valueByEqFilter |-> NilVal, callback |-> FALSE,
         callbackUpdatedValue |-> FALSE, elementStrategy |-> "idle"]

Frame(fn, qi, depth) ==
    [fn |-> fn, qi |-> qi, pc |-> "start", idx |-> 0, n |-> 0, sel |-> {}, d0 |-> depth]

Top == stack[Len(stack)]
Popped == SubSeq(stack, 1, Len(stack) - 1)
WithTop(f) == [stack EXCEPT ![Len(stack)] = f]
Running(fn, pc) == stack # <<>> /\ Top.fn = fn /\ Top.pc = pc

Init ==
    /\ emails \in SeqsUpTo(InitElems, MaxElems)
    /\ primaryAnnotated \in BOOLEAN
    /\ t = Idle
    /\ query = <<>>
    /\ nav = <<>>
    /\ navErr = NoErr
    /\ stack = <<>>
    /\ ret = None
    /\ result = None
    /\ cbLog = <<>>
    /\ evLog = <<>>
    /\ entryEmails = emails

Enter(tr, q) ==
    /\ t' = tr
    /\ query' = q
    /\ stack' = <<Frame("traverse", 1, Len(nav))>>
    /\ UNCHANGED <<emails, primaryAnnotated, nav, navErr, ret, result, cbLog, evLog,
                   entryEmails>>

defaultTraverse ==
    \E q \in Queries :
        /\ t.elementStrategy = "idle"
        /\ Enter([addByEqFilter |-> FALSE, valueByEqFilter |-> NilVal, callback |-> TRUE,
               callbackUpdatedValue |-> FALSE, elementStrategy |-> "selectAllStrategy"], q)

addByEqFilterTraverse ==
    \E q \in Queries :
        /\ t.elementStrategy = "idle"
        /\ Enter([addByEqFilter |-> TRUE, valueByEqFilter |-> NewValue, callback |-> FALSE,
               callbackUpdatedValue |-> TRUE, elementStrategy |-> "selectAllStrategy"], q)

primaryOrFirstTraverse ==
    \E q \in Queries :
        /\ t.elementStrategy = "idle"
        /\ Enter([addByEqFilter |-> FALSE, valueByEqFilter |-> NilVal, callback |-> TRUE,
               callbackUpdatedValue |-> FALSE, elementStrategy |-> "primaryOrFirstStrategy"], q)

\* variant: the filter is not checked against the cardinality of the current node
traverseBranch_FilterUnchecked(tr, node, multi) ==
    IF IsNil(node) THEN "callback"
    ELSE IF IsRootOfFilter(node) THEN
        IF tr.addByEqFilter /\ Token(node) = Eq THEN "updateValueByEqFilter"
        ELSE "traverseQualifiedElements"
    ELSE IF multi THEN "traverseSelectedElements"
    ELSE "traverseNext"

\* variant: a multi-valued position fans out before the end of the query is looked at
traverseBranch_FanOutFirst(tr, node, multi) ==
    IF ~IsNil(node) /\ IsRootOfFilter(node) THEN
        IF ~multi THEN "singular"
        ELSE IF tr.addByEqFilter /\ Token(node) = Eq THEN "updateValueByEqFilter"
        ELSE "traverseQualifiedElements"
    ELSE IF multi THEN "traverseSelectedElements"
    ELSE IF IsNil(node) THEN "callback"
    ELSE "traverseNext"

\* which branch traverse takes on a query node at a position
traverseBranch(tr, node, multi) ==
    IF IsNil(node) THEN "callback"
    ELSE IF IsRootOfFilter(node) THEN
        IF ~multi THEN "singular"
        ELSE IF tr.addByEqFilter /\ Token(node) = Eq THEN "updateValueByEqFilter"
        ELSE "traverseQualifiedElements"
    ELSE IF multi THEN "traverseSelectedElements"
    ELSE "traverseNext"

\* the caller's callback returns nil or an error of its own
CallbackOutcomes == {NoErr, Err("Callback", "callback failed")}

\* traverse, query == nil: the callback is called at the current position;
\* calling the nil callback of an add-by-filter traverser panics
traverseCallback ==
    /\ Running("traverse", "start")
    /\ traverseBranch(t, NodeAt(query, Top.qi), MultiValued(nav)) = "callback"
    /\ IF t.callback
       THEN \E out \in CallbackOutcomes :
                /\ cbLog' = Append(cbLog, [pos |-> nav, value |-> <<>>])
                /\ ret' = out
       ELSE /\ ret' = Err("Panic", "nil callback")
            /\ UNCHANGED cbLog
    /\ stack' = Popped
    /\ UNCHANGED <<emails, primaryAnnotated, t, query, nav, navErr, result, evLog,
                   entryEmails>>

\* traverse, a filter on a singular attribute
traverseSingular ==
    /\ Running("traverse", "start")
    /\ traverseBranch(t, NodeAt(query, Top.qi), MultiValued(nav)) = "singular"
    /\ ret' = Err("InvalidFilter", "filter applied to singular attribute")
    /\ stack' = Popped
    /\ UNCHANGED <<emails, primaryAnnotated, t, query, nav, navErr, result, cbLog, evLog,
                   entryEmails>>

\* traverse calls one of its four helpers on the same query node
traverseCall ==
    /\ Running("traverse", "start")
    /\ LET b == traverseBranch(t, NodeAt(query, Top.qi), MultiValued(nav))
       IN  /\ b \notin {"callback", "singular"}
           /\ stack' = Append(WithTop([Top EXCEPT !.pc = "wait"]),
                              Frame(b, Top.qi, Len(nav)))
    /\ UNCHANGED <<emails, primaryAnnotated, t, query, nav, navErr, ret, result, cbLog,
                   evLog, entryEmails>>

\* traverse returns what its helper returned
traverseReturn ==
    /\ Running("traverse", "wait")
    /\ ret # None
    /\ stack' = Popped
    /\ UNCHANGED <<emails, primaryAnnotated, t, query, nav, navErr, ret, result, cbLog,
                   evLog, entryEmails>>

\* variant: the empty element is added to the property itself, not to a clone
discoverType_NoClone(p, e, coll, filterKey) ==
    LET added == Add(p, coll, << <<>> >>).coll
        at == At(p, NoErr, 0, Len(added))
    IN  [coll |-> added, nav |-> p, navErr |-> e,
         navCopy |-> Dot(at.stack, at.err, filterKey)]

\* type discovery of updateValueByEqFilter: an empty element is added to a
\* clone of the current property and a navigator of its own goes to the
\* filterKey sub-property of the clone's first element; what this leaves of
\* the collection and of the traverser's navigator, and the clone's navigator
discoverType(p, e, coll, filterKey) ==
    LET propCopy == Add(p, coll, << <<>> >>).coll
        at == At(p, NoErr, 0, Len(propCopy))
    IN  [coll |-> coll, nav |-> p, navErr |-> e,
         navCopy |-> Dot(at.stack, at.err, filterKey)]

\* variant: the two entries of the composed element carry each other's value
updateValueByEqFilter_Swapped(tr, q, qi, p, coll) ==
    LET node == NodeAt(q, qi)
        next == NodeAt(q, qi + 1)
        filterKey == IF ~IsNil(Left(node)) /\ IsPath(Left(node))
                     THEN Token(Left(node)) ELSE ""
        nextIsPath == ~IsNil(next) /\ IsPath(next)
        keyValue == IF nextIsPath THEN Token(next) ELSE ""
        hasLiteral == ~IsNil(Right(node)) /\ IsLiteral(Right(node))
        navCopy == discoverType(p, NoErr, coll, filterKey).navCopy
        norm == normalize(AttrType(DotNames(navCopy.stack)), Token(Right(node)))
        filterValue == IF hasLiteral THEN norm.v ELSE NilVal
        fail(e) == [err |-> e, call |-> FALSE, value |-> <<>>]
    IN  IF nextIsPath /\ ~IsNil(NodeAt(q, qi + 2))
        THEN fail(Err("InvalidFilter", "only a single Eq filter is applicable"))
        ELSE IF filterKey = "" \/ keyValue = ""
        THEN fail(Err("InvalidFilter", "filter is not supported"))
        ELSE IF hasLiteral /\ navCopy.err # NoErr
        THEN fail(Err("InvalidFilter", "invalid filter"))
        ELSE IF hasLiteral /\ IsError(norm.err)
        THEN fail(Err("InvalidFilter", "invalid filter value"))
        ELSE IF ~tr.callbackUpdatedValue
        THEN fail(Err("Internal", "callbackUpdatedValue not initiated"))
        ELSE [err |-> NoErr, call |-> TRUE,
              value |-> << [n \in {keyValue, filterKey} |->
                              IF n = filterKey THEN tr.valueByEqFilter
                              ELSE filterValue] >>]

\* variant: the left operand names the filter key whatever kind of node it is
updateValueByEqFilter_AnyLeft(tr, q, qi, p, coll) ==
    LET node == NodeAt(q, qi)
        next == NodeAt(q, qi + 1)
        filterKey == IF ~IsNil(Left(node)) THEN Token(Left(node)) ELSE ""
        nextIsPath == ~IsNil(next) /\ IsPath(next)
        keyValue == IF nextIsPath THEN Token(next) ELSE ""
        hasLiteral == ~IsNil(Right(node)) /\ IsLiteral(Right(node))
        navCopy == discoverType(p, NoErr, coll, filterKey).navCopy
        norm == normalize(AttrType(DotNames(navCopy.stack)), Token(Right(node)))
        filterValue == IF hasLiteral THEN norm.v ELSE NilVal
        fail(e) == [err |-> e, call |-> FALSE, value |-> <<>>]
    IN  IF nextIsPath /\ ~IsNil(NodeAt(q, qi + 2))
        THEN fail(Err("InvalidFilter", "only a single Eq filter is applicable"))
        ELSE IF filterKey = "" \/ keyValue = ""
        THEN fail(Err("InvalidFilter", "filter is not supported"))
        ELSE IF hasLiteral /\ navCopy.err # NoErr
        THEN fail(Err("InvalidFilter", "invalid filter"))
        ELSE IF hasLiteral /\ IsError(norm.err)
        THEN fail(Err("InvalidFilter", "invalid filter value"))
        ELSE IF ~tr.callbackUpdatedValue
        THEN fail(Err("Internal", "callbackUpdatedValue not initiated"))
        ELSE [err |-> NoErr, call |-> TRUE,
              value |-> << [n \in {keyValue, filterKey} |->
                              IF n = filterKey THEN filterValue
                              ELSE tr.valueByEqFilter] >>]

\* updateValueByEqFilter up to its last statement: the error it returns, or
\* the value it hands to callbackUpdatedValue
updateValueByEqFilter(tr, q, qi, p, coll) ==
    LET node == NodeAt(q, qi)
        next == NodeAt(q, qi + 1)
        filterKey == IF ~IsNil(Left(node)) /\ IsPath(Left(node))
                     THEN Token(Left(node)) ELSE ""
        nextIsPath == ~IsNil(next) /\ IsPath(next)
        keyValue == IF nextIsPath THEN Token(next) ELSE ""
        hasLiteral == ~IsNil(Right(node)) /\ IsLiteral(Right(node))
        navCopy == discoverType(p, NoErr, coll, filterKey).navCopy
        norm == normalize(AttrType(DotNames(navCopy.stack)), Token(Right(node)))
        filterValue == IF hasLiteral THEN norm.v ELSE NilVal
        fail(e) == [err |-> e, call |-> FALSE, value |-> <<>>]
    IN  IF nextIsPath /\ ~IsNil(NodeAt(q, qi + 2))
        THEN fail(Err("InvalidFilter", "only a single Eq filter is applicable"))
        ELSE IF filterKey = "" \/ keyValue = ""
        THEN fail(Err("InvalidFilter", "filter is not supported"))
        ELSE IF hasLiteral /\ navCopy.err # NoErr
        THEN fail(Err("InvalidFilter", "invalid filter"))
        ELSE IF hasLiteral /\ IsError(norm.err)
        THEN fail(Err("InvalidFilter", "invalid filter value"))
        ELSE IF ~tr.callbackUpdatedValue
        THEN fail(Err("Internal", "callbackUpdatedValue not initiated"))
        ELSE [err |-> NoErr, call |-> TRUE,
              value |-> << [n \in {keyValue, filterKey} |->
                              IF n = filterKey THEN filterValue
                              ELSE tr.valueByEqFilter] >>]

\* updateValueByEqFilter up to the call of callbackUpdatedValue: the operands
\* are checked and the literal is normalized by type discovery on a clone
updateValueByEqFilterCompose ==
    /\ Running("updateValueByEqFilter", "start")
    /\ LET o == updateValueByEqFilter(t, query, Top.qi, nav, emails)
           node == NodeAt(query, Top.qi)
           discovers ==
               /\ IsLiteral(Right(node))
               /\ o.err.detail \notin {"only a single Eq filter is applicable",
                                       "filter is not supported"}
           d == discoverType(nav, navErr, emails, Token(Left(node)))
       IN  /\ IF discovers
              THEN emails' = d.coll /\ nav' = d.nav /\ navErr' = d.navErr
              ELSE UNCHANGED <<emails, nav, navErr>>
           /\ IF o.call
              THEN ret' = ret /\ stack' = WithTop([Top EXCEPT !.pc = "callback"])
              ELSE ret' = o.err /\ stack' = Popped
    /\ UNCHANGED <<primaryAnnotated, t, query, result, cbLog, evLog, entryEmails>>

\* updateValueByEqFilter calls callbackUpdatedValue with the composed value; the
\* caller's callback either fails or adds the value at the navigator's position
traverseUpdateValue ==
    /\ Running("updateValueByEqFilter", "callback")
    /\ LET o == updateValueByEqFilter(t, query, Top.qi, nav, emails)
       IN  /\ cbLog' = Append(cbLog, [pos |-> nav, value |-> o.value])
           /\ \E out \in CallbackOutcomes :
                IF IsError(out)
                THEN ret' = out /\ UNCHANGED <<emails, navErr>>
                ELSE LET a == Add(nav, emails, o.value)
                     IN  emails' = a.coll /\ navErr' = a.err /\ ret' = a.err
    /\ stack' = Popped
    /\ UNCHANGED <<primaryAnnotated, t, query, nav, result, evLog, entryEmails>>

\* variant: the Retract is deferred before the error of Dot is looked at
traverseNext_RetractOnFailure ==
    /\ Running("traverseNext", "start")
    /\ LET d == Dot(nav, navErr, Token(NodeAt(query, Top.qi)))
       IN  /\ navErr' = d.err
           /\ IF d.err # NoErr
              THEN nav' = Retract(d.stack) /\ ret' = d.err /\ stack' = Popped
              ELSE /\ nav' = d.stack
                   /\ ret' = ret
                   /\ stack' = Append(WithTop([Top EXCEPT !.pc = "wait"]),
                                      Frame("traverse", Top.qi + 1, Len(d.stack)))
    /\ UNCHANGED <<emails, primaryAnnotated, t, query, result, cbLog, evLog, entryEmails>>

\* traverseNext: Dot into the named sub-attribute, then traverse the next node
traverseNext ==
    /\ Running("traverseNext", "start")
    /\ LET d == Dot(nav, navErr, Token(NodeAt(query, Top.qi)))
       IN  /\ nav' = d.stack
           /\ navErr' = d.err
           /\ IF d.err # NoErr
              THEN ret' = d.err /\ stack' = Popped
              ELSE /\ ret' = ret
                   /\ stack' = Append(WithTop([Top EXCEPT !.pc = "wait"]),
                                      Frame("traverse", Top.qi + 1, Len(d.stack)))
    /\ UNCHANGED <<emails, primaryAnnotated, t, query, result, cbLog, evLog, entryEmails>>

\* variant: traverseNext returns without the Retract
traverseNextReturn_NoRetract ==
    /\ Running("traverseNext", "wait")
    /\ ret # None
    /\ stack' = Popped
    /\ UNCHANGED <<emails, primaryAnnotated, t, query, nav, navErr, ret, result, cbLog,
                   evLog, entryEmails>>

\* traverseNext returns: the deferred Retract runs
traverseNextReturn ==
    /\ Running("traverseNext", "wait")
    /\ ret # None
    /\ nav' = Retract(nav)
    /\ stack' = Popped
    /\ UNCHANGED <<emails, primaryAnnotated, t, query, navErr, ret, result, cbLog, evLog,
                   entryEmails>>

\* traverseSelectedElements: the selector is computed, ForEachChild starts
traverseSelectedElements ==
    /\ Running("traverseSelectedElements", "start")
    /\ LET coll == Children(nav, emails)
       IN  stack' = WithTop([Top EXCEPT
                !.pc = "loop", !.idx = 0, !.n = Len(coll),
                !.sel = {i \in 0..(Len(coll) - 1) :
                            elementStrategy(t.elementStrategy, primaryAnnotated, coll, i)}])
    /\ UNCHANGED <<emails, primaryAnnotated, t, query, nav, navErr, ret, result, cbLog,
                   evLog, entryEmails>>

\* one child of ForEachChild in traverseSelectedElements
selectedForEachChild ==
    /\ Running("traverseSelectedElements", "loop")
    /\ IF Top.idx >= Top.n
       THEN ret' = NoErr /\ stack' = Popped /\ UNCHANGED <<nav, navErr>>
       ELSE IF Top.idx \notin Top.sel
       THEN /\ stack' = WithTop([Top EXCEPT !.idx = @ + 1])
            /\ UNCHANGED <<nav, navErr, ret>>
       ELSE LET a == At(nav, navErr, Top.idx, Len(Children(nav, emails)))
            IN  /\ nav' = a.stack
                /\ navErr' = a.err
                /\ IF a.err # NoErr
                   THEN ret' = a.err /\ stack' = Popped
                   ELSE /\ ret' = ret
                        /\ stack' = Append(WithTop([Top EXCEPT !.pc = "wait"]),
                                           Frame("traverse", Top.qi, Len(a.stack)))
    /\ UNCHANGED <<emails, primaryAnnotated, t, query, result, cbLog, evLog, entryEmails>>

\* variant: ForEachChild goes on to the next child after a visitor's error
ChildReturn_Swallow ==
    /\ ret # None
    /\ nav' = Retract(nav)
    /\ stack' = WithTop([Top EXCEPT !.pc = "loop", !.idx = @ + 1])
    /\ ret' = None
    /\ UNCHANGED <<emails, primaryAnnotated, t, query, navErr, result, cbLog, evLog,
                   entryEmails>>

\* the visitor of a child returns: the deferred Retract runs, and ForEachChild
\* stops at the first error
ChildReturn ==
    /\ ret # None
    /\ nav' = Retract(nav)
    /\ IF IsError(ret)
       THEN stack' = Popped /\ ret' = ret
       ELSE /\ stack' = WithTop([Top EXCEPT !.pc = "loop", !.idx = @ + 1])
            /\ ret' = None
    /\ UNCHANGED <<emails, primaryAnnotated, t, query, navErr, result, cbLog, evLog,
                   entryEmails>>

selectedChildReturn ==
    /\ Running("traverseSelectedElements", "wait")
    /\ ChildReturn

\* traverseQualifiedElements: ForEachChild starts
traverseQualifiedElements ==
    /\ Running("traverseQualifiedElements", "start")
    /\ stack' = WithTop([Top EXCEPT !.pc = "loop", !.idx = 0,
                                    !.n = Len(Children(nav, emails))])
    /\ UNCHANGED <<emails, primaryAnnotated, t, query, nav, navErr, ret, result, cbLog,
                   evLog, entryEmails>>

\* one child of ForEachChild in traverseQualifiedElements: At(index)
qualifiedForEachChild ==
    /\ Running("traverseQualifiedElements", "loop")
    /\ IF Top.idx >= Top.n
       THEN ret' = NoErr /\ stack' = Popped /\ UNCHANGED <<nav, navErr>>
       ELSE LET a == At(nav, navErr, Top.idx, Len(Children(nav, emails)))
            IN  /\ nav' = a.stack
                /\ navErr' = a.err
                /\ IF a.err # NoErr
                   THEN ret' = a.err /\ stack' = Popped
                   ELSE ret' = ret /\ stack' = WithTop([Top EXCEPT !.pc = "evaluate"])
    /\ UNCHANGED <<emails, primaryAnnotated, t, query, result, cbLog, evLog, entryEmails>>

\* variant: an element that fails the filter is traversed like one that passes
qualifiedVisit_NoSkip(e) ==
    IF IsError(e.err) THEN "error"
    ELSE "traverse"

\* what the visitor does with the evaluator's answer
qualifiedVisit(e) ==
    IF IsError(e.err) THEN "error"
    ELSE IF ~e.r THEN "skip"
    ELSE "traverse"

\* the filter is evaluated on the element the navigator is at
qualifiedEvaluate ==
    /\ Running("traverseQualifiedElements", "evaluate")
    /\ LET e == evaluate(DotNames(nav), emails[Top.idx + 1], NodeAt(query, Top.qi))
           v == qualifiedVisit(e)
       IN  /\ evLog' = Append(evLog, [idx |-> Top.idx, r |-> e.r, err |-> e.err])
           /\ CASE v = "error" ->
                    /\ nav' = Retract(nav)
                    /\ ret' = e.err
                    /\ stack' = Popped
                [] v = "skip" ->
                    /\ nav' = Retract(nav)
                    /\ ret' = ret
                    /\ stack' = WithTop([Top EXCEPT !.pc = "loop", !.idx = @ + 1])
                [] OTHER ->
                    /\ nav' = nav
                    /\ ret' = ret
                    /\ stack' = Append(WithTop([Top EXCEPT !.pc = "wait"]),
                                       Frame("traverse", Top.qi + 1, Len(nav)))
    /\ UNCHANGED <<emails, primaryAnnotated, t, query, navErr, result, cbLog, entryEmails>>

qualifiedChildReturn ==
    /\ Running("traverseQualifiedElements", "wait")
    /\ ChildReturn

\* the entry point returns what the outermost traverse returned
Return ==
    /\ stack = <<>>
    /\ ret # None
    /\ result = None
    /\ result' = ret
    /\ UNCHANGED <<emails, primaryAnnotated, t, query, nav, navErr, stack, ret, cbLog,
                   evLog, entryEmails>>

Next ==
    \/ defaultTraverse
    \/ addByEqFilterTraverse
    \/ primaryOrFirstTraverse
    \/ traverseCallback
    \/ traverseSingular
    \/ traverseCall
    \/ traverseReturn
    \/ updateValueByEqFilterCompose
    \/ traverseUpdateValue
    \/ traverseNext
    \/ traverseNextReturn
    \/ traverseSelectedElements
    \/ selectedForEachChild
    \/ selectedChildReturn
    \/ traverseQualifiedElements
    \/ qualifiedForEachChild
    \/ qualifiedEvaluate
    \/ qualifiedChildReturn
    \/ Return

Spec == Init /\ [][Next]_vars

----------------------------------------------------------------------------
(* Vocabulary of the properties                                            *)

Returned == result # None
DefaultMode == t.elementStrategy = "selectAllStrategy" /\ ~t.addByEqFilter
AddMode == t.addByEqFilter
PrimaryMode == t.elementStrategy = "primaryOrFirstStrategy"

Collection == <<DotStep("emails")>>
ElementAt(i) == <<DotStep("emails"), AtStep(i)>>
SubOf(i, sub) == <<DotStep("emails"), AtStep(i), DotStep(sub)>>

\* a query of the shape emails[filter].sub
FilterSubQuery(q) ==
    /\ Len(q) = 3
    /\ q[1] = PathNode("emails")
    /\ IsRootOfFilter(q[2])
    /\ IsPath(q[3])

\* the filter of the query evaluates on every element of coll without error
Evaluable(coll, f) ==
    \A j \in 1..Len(coll) : ~IsError(evaluate(<<"emails">>, coll[j], f).err)

Satisfies(coll, i, f) == evaluate(<<"emails">>, coll[i + 1], f).r

\* the indexes of the elements of coll that satisfy f, ascending
Matches(coll, f) ==
    SelectSeq([j \in 1..Len(coll) |-> j - 1], LAMBDA i : Satisfies(coll, i, f))

IsPrefix(a, b) == Len(a) <= Len(b) /\ a = SubSeq(b, 1, Len(a))

\* the callbacks a default traverse of emails[f].sub owes: one per match, in order
OwedCallbacks(coll, f, sub) ==
    LET m == Matches(coll, f)
    IN  [j \in 1..Len(m) |-> [pos |-> SubOf(m[j], sub), value |-> <<>>]]

----------------------------------------------------------------------------
(* C1: a default traverse of emails[filter].sub, with a filter that        *)
(* evaluates on every element and an existing sub-attribute, calls the     *)
(* callback once per element that satisfies the filter, in ascending index *)
(* order, positioned at that element's sub node, and for no other element; *)
(* when every callback succeeds it returns success, so with no matching    *)
(* element (or no element) it returns success after zero callbacks.        *)
C1_QualifiedCallbacks ==
    (/\ DefaultMode
     /\ FilterSubQuery(query)
     /\ Token(query[3]) \in ElemAttrs
     /\ Evaluable(emails, query[2]))
    => LET owed == OwedCallbacks(emails, query[2], Token(query[3]))
       IN  /\ IsPrefix(cbLog, owed)
           /\ Returned /\ result.kind # "Callback" => result = NoErr /\ cbLog = owed
           /\ Returned /\ result.kind = "Callback" => cbLog # <<>>

\* scenario 1: [home, work] and emails[type eq "work"].value: one callback at emails[1].value
C1_Witness ==
    /\ DefaultMode
    /\ query = <<PathNode("emails"), TypeEq(Work), PathNode("value")>>
    /\ Len(emails) = 2
    /\ emails[1]["type"] = S("home")
    /\ emails[2]["type"] = S("work")
    /\ result = NoErr
    /\ cbLog = <<[pos |-> SubOf(1, "value"), value |-> <<>>]>>

\* no element matches: success after zero callbacks
C1_WitnessNoMatch ==
    /\ DefaultMode
    /\ query = <<PathNode("emails"), TypeEq(Work), PathNode("value")>>
    /\ Len(emails) = 2
    /\ result = NoErr
    /\ cbLog = <<>>

----------------------------------------------------------------------------
(* C2: in every mode, a traverse that stands on a filter node while the    *)
(* navigator's current node is not multi-valued returns the InvalidFilter  *)
(* error 'filter applied to singular attribute'; the entry point returns   *)
(* that error and no callback has been or is invoked.                      *)
SingularFilterError == Err("InvalidFilter", "filter applied to singular attribute")

AtSingularFilter ==
    /\ Running("traverse", "start")
    /\ IsRootOfFilter(NodeAt(query, Top.qi))
    /\ ~MultiValued(nav)

C2_SingularFilter ==
    /\ [][AtSingularFilter => ret' = SingularFilterError /\ stack' = Popped]_vars
    /\ [](AtSingularFilter \/ ret = SingularFilterError => cbLog = <<>>)
    /\ [](Returned /\ ret = SingularFilterError => result = SingularFilterError)

C2_Witness ==
    /\ result = SingularFilterError
    /\ query = <<PathNode("name"), TypeEq(Work), PathNode("givenName")>>
    /\ cbLog = <<>>

----------------------------------------------------------------------------
(* Implicit add                                                            *)

\* a query of the shape emails[k eq literal].target
SingleEqQuery(q) ==
    /\ FilterSubQuery(q)
    /\ Token(q[2]) = Eq
    /\ IsPath(Left(q[2]))
    /\ IsLiteral(Right(q[2]))

FilterKeyOf(q) == Token(Left(q[2]))
TargetOf(q) == Token(q[3])
LiteralOf(q) == normalize(AttrType(<<"emails", FilterKeyOf(q)>>), Token(Right(q[2])))

\* an implicit add whose filter is well-formed for the schema and matched by
\* no element of the collection the entry point was handed
ImplicitAddCase ==
    /\ AddMode
    /\ SingleEqQuery(query)
    /\ FilterKeyOf(query) \in ElemAttrs
    /\ ~IsError(LiteralOf(query).err)
    /\ Matches(entryEmails, query[2]) = <<>>

\* the entries of the composed element: the filter's entry wins a shared name
ComposedMap(q, v) ==
    [n \in {FilterKeyOf(q), TargetOf(q)} |->
        IF n = FilterKeyOf(q) THEN LiteralOf(q).v ELSE v]

ComposedElement(q, v) ==
    [a \in ElemAttrs |->
        IF a = FilterKeyOf(q) THEN LiteralOf(q).v
        ELSE IF a = TargetOf(q) THEN v
        ELSE NilVal]

\* the caller's value fits the target sub-attribute
TargetConforms(q, v) ==
    /\ TargetOf(q) \in ElemAttrs
    /\ \/ TargetOf(q) = FilterKeyOf(q)
       \/ v.t = AttrType(<<"emails", TargetOf(q)>>)

(* C3 as stated: an implicit add that succeeds leaves the collection with  *)
(* one new appended element {k: normalized lit, target: newValue} and has  *)
(* called onReach exactly once, positioned on the new element's target     *)
(* node.                                                                   *)
C3_OnNewTargetNode ==
    ImplicitAddCase /\ Returned /\ result = NoErr
    => /\ emails = Append(entryEmails, ComposedElement(query, t.valueByEqFilter))
       /\ Len(cbLog) = 1
       /\ cbLog[1].pos = SubOf(Len(entryEmails), TargetOf(query))

(* C3, amended: an implicit add calls onReach exactly once, positioned on  *)
(* the collection node and handed the one-element list                     *)
(* [{k: normalized lit, target: newValue}]; the traversal appends nothing  *)
(* itself: the collection ends with exactly that one new appended element  *)
(* when onReach adds the value it was handed, and is unchanged when        *)
(* onReach fails or the value does not fit the schema.                     *)
C3_OnCollectionNode ==
    ImplicitAddCase /\ Returned
    => /\ cbLog = <<[pos |-> Collection,
                     value |-> <<ComposedMap(query, t.valueByEqFilter)>>]>>
       /\ result.kind \in {"ok", "Callback", "InvalidType"}
       /\ result = NoErr =>
            emails = Append(entryEmails, ComposedElement(query, t.valueByEqFilter))
       /\ result # NoErr => emails = entryEmails
       /\ result.kind # "Callback" =>
            (result = NoErr <=> TargetConforms(query, t.valueByEqFilter))

\* scenario 2: emails = [], "c@x" added by emails[type eq "work"].value
C3_Witness ==
    /\ AddMode
    /\ query = <<PathNode("emails"), TypeEq(Work), PathNode("value")>>
    /\ entryEmails = <<>>
    /\ result = NoErr
    /\ emails = <<[type |-> S("work"), value |-> S("c@x"), primary |-> NilVal]>>
    /\ cbLog = <<[pos |-> Collection,
                  value |-> <<[n \in {"type", "value"} |->
                                 IF n = "type" THEN S("work") ELSE S("c@x")]>>]>>

----------------------------------------------------------------------------
(* C4: in add-by-equality-filter mode the callback is handed a composed    *)
(* element only when no element of the collection satisfies the equality   *)
(* filter; when some element satisfies it, every callback is one of the    *)
(* default traverse, without a value.                                      *)
C4_ComposedOnlyWithoutMatch ==
    (/\ AddMode
     /\ SingleEqQuery(query)
     /\ Evaluable(entryEmails, query[2])
     /\ Matches(entryEmails, query[2]) # <<>>)
    => \A j \in 1..Len(cbLog) : cbLog[j].value = <<>>

----------------------------------------------------------------------------
(* C5: traverseAddByEqualityFilter with a filter of two chained predicates *)
(* returns the InvalidFilter error 'only a single Eq filter is             *)
(* applicable', calls no callback and leaves the document as it was,       *)
(* whatever the collection holds.                                          *)
TwoPredicateQuery(q) ==
    /\ Len(q) >= 3
    /\ q[1] = PathNode("emails")
    /\ IsRootOfFilter(q[2])
    /\ Token(q[2]) = "and" \/ IsRootOfFilter(q[3])

C5_TwoPredicatesRejected ==
    AddMode /\ TwoPredicateQuery(query) /\ Returned
    => /\ result = Err("InvalidFilter", "only a single Eq filter is applicable")
       /\ cbLog = <<>>
       /\ emails = entryEmails

----------------------------------------------------------------------------
(* C6: every frame returns with the navigator at the depth it was entered  *)
(* with, on success and on error alike: a successful Dot or At is undone   *)
(* by one Retract before its frame returns, a failed one leaves the        *)
(* navigator where it was and is followed by no Retract; when the entry    *)
(* point has returned the navigator is back at the root.                   *)
C6_StackDiscipline ==
    /\ [][Len(stack') < Len(stack) => Len(nav') = Top.d0]_vars
    /\ [][navErr' # navErr => nav' = nav /\ Len(stack') < Len(stack)]_vars
    /\ [](stack # <<>> => Len(nav) >= Top.d0)
    /\ [](Returned => nav = <<>>)

\* an error three levels down: the second callback of emails.value fails
C6_Witness ==
    /\ Returned
    /\ query = <<PathNode("emails"), PathNode("value")>>
    /\ result.kind = "Callback"
    /\ Len(cbLog) = 2
    /\ cbLog[2].pos = SubOf(1, "value")
    /\ nav = <<>>

----------------------------------------------------------------------------
(* C7: the first error of the descent (a failed Dot or At, a failed filter *)
(* evaluation, a failed callback) aborts the traversal: while it is being  *)
(* returned no child is visited, no filter is evaluated, no callback is    *)
(* called and no frame is entered, and the entry point returns that error; *)
(* a filter that evaluates to false is no error, and ForEachChild goes on  *)
(* with the next child.                                                    *)
FilterIsFalse ==
    /\ Running("traverseQualifiedElements", "evaluate")
    /\ LET e == evaluate(DotNames(nav), emails[Top.idx + 1], NodeAt(query, Top.qi))
       IN  ~IsError(e.err) /\ ~e.r

C7_FirstErrorAborts ==
    /\ [][IsError(ret) =>
            /\ ret' = ret
            /\ cbLog' = cbLog
            /\ evLog' = evLog
            /\ emails' = emails
            /\ Len(stack') <= Len(stack)
            /\ Len(nav') <= Len(nav)]_vars
    /\ [](Returned => result = ret)
    /\ [][FilterIsFalse =>
            /\ ret' = None
            /\ stack' = WithTop([Top EXCEPT !.pc = "loop", !.idx = @ + 1])]_vars

\* the callback fails on the first of two elements: the second is not visited
C7_Witness ==
    /\ DefaultMode
    /\ query = <<PathNode("emails"), PathNode("value")>>
    /\ Len(emails) = 2
    /\ result.kind = "Callback"
    /\ cbLog = <<[pos |-> SubOf(0, "value"), value |-> <<>>]>>

----------------------------------------------------------------------------
(* C8: traversePrimaryOrFirst of a filter-free path emails.sub calls the   *)
(* callback exactly once on a non-empty collection: under the first        *)
(* element whose primary marker is true when there is one, under element 0 *)
(* otherwise; on an empty collection it returns success after zero         *)
(* callbacks.                                                              *)
IsPrimary(coll, i) == primaryAnnotated /\ coll[i + 1]["primary"] = B(TRUE)

FirstPrimaryOrZero(coll, i) ==
    IF \E j \in 0..(Len(coll) - 1) : IsPrimary(coll, j)
    THEN IsPrimary(coll, i) /\ \A j \in 0..(i - 1) : ~IsPrimary(coll, j)
    ELSE i = 0

C8_PrimaryOrFirst ==
    (/\ PrimaryMode
     /\ Len(query) = 2
     /\ query[1] = PathNode("emails")
     /\ IsPath(query[2])
     /\ Token(query[2]) \in ElemAttrs
     /\ Returned)
    => IF emails = <<>>
       THEN result = NoErr /\ cbLog = <<>>
       ELSE /\ Len(cbLog) = 1
            /\ \E i \in 0..(Len(emails) - 1) :
                 /\ cbLog[1].pos = SubOf(i, Token(query[2]))
                 /\ FirstPrimaryOrZero(emails, i)
            /\ result \in CallbackOutcomes

\* scenario 3: the second of two elements is the primary one
C8_Witness ==
    /\ PrimaryMode
    /\ primaryAnnotated
    /\ query = <<PathNode("emails"), PathNode("value")>>
    /\ Len(emails) = 2
    /\ emails[1]["primary"] = B(FALSE)
    /\ emails[2]["primary"] = B(TRUE)
    /\ result = NoErr
    /\ cbLog = <<[pos |-> SubOf(1, "value"), value |-> <<>>]>>

----------------------------------------------------------------------------
(* C9: on every multi-valued node the primary-or-first selector accepts    *)
(* exactly one child index when the node has children and none when it has *)
(* not, however many children carry a true primary marker and whether or   *)
(* not a primary marker is defined: the first child with a true marker,    *)
(* else index 0; the select-all selector accepts every index 0..n-1.       *)
C9_Selectors ==
    \A k \in 1..Len(stack) :
        stack[k].fn = "traverseSelectedElements" /\ stack[k].pc # "start"
        => /\ stack[k].n = Len(emails)
           /\ IF PrimaryMode
              THEN /\ Cardinality(stack[k].sel) = IF stack[k].n = 0 THEN 0 ELSE 1
                   /\ \A i \in stack[k].sel : FirstPrimaryOrZero(emails, i)
              ELSE stack[k].sel = 0..(stack[k].n - 1)

\* two children with a true primary marker: the first one only
C9_Witness ==
    /\ PrimaryMode
    /\ primaryAnnotated
    /\ Len(emails) = 2
    /\ emails[1]["primary"] = B(TRUE)
    /\ emails[2]["primary"] = B(TRUE)
    /\ Running("traverseSelectedElements", "loop")
    /\ Top.sel = {0}

----------------------------------------------------------------------------
(* C10: a path segment that names no sub-attribute of the current complex  *)
(* node makes traverseNext return the navigator's NoAttribute error at     *)
(* once: no frame is entered, no callback is called, the document is not   *)
(* touched and the navigator stays where it was before the failed Dot; the *)
(* entry point returns that error.                                         *)
AtMissingSubAttribute ==
    /\ Running("traverseNext", "start")
    /\ navErr = NoErr
    /\ ~MultiValued(nav)
    /\ AttrType(DotNames(nav)) = "complex"
    /\ Token(NodeAt(query, Top.qi)) \notin SubAttributes(DotNames(nav))

C10_NoAttribute ==
    /\ [][AtMissingSubAttribute =>
            /\ ret' = Err("NoAttribute", Token(NodeAt(query, Top.qi)))
            /\ nav' = nav
            /\ stack' = Popped
            /\ cbLog' = cbLog
            /\ emails' = emails]_vars
    /\ [](Returned /\ ret.kind = "NoAttribute" =>
            result = ret /\ emails = entryEmails /\ nav = <<>>)

\* emails.nosuch on two elements: the first element already fails
C10_Witness ==
    /\ query = <<PathNode("emails"), PathNode("nosuch")>>
    /\ Len(emails) = 2
    /\ result = Err("NoAttribute", "nosuch")
    /\ cbLog = <<>>
    /\ emails = entryEmails

----------------------------------------------------------------------------
(* C11: in add-by-equality-filter mode, a traverse whose remaining query   *)
(* is empty calls the caller's onReach callback at the navigator's current *)
(* position and returns what the callback returned.                        *)
AtEndOfQuery ==
    /\ Running("traverse", "start")
    /\ IsNil(NodeAt(query, Top.qi))

C11_OnReachAtEndOfQuery ==
    [][AddMode /\ AtEndOfQuery =>
        /\ Len(cbLog') = Len(cbLog) + 1
        /\ cbLog'[Len(cbLog')].pos = nav
        /\ ret' \in CallbackOutcomes]_vars

----------------------------------------------------------------------------
(* Operand checks of updateValueByEqFilter                                 *)

NotSupported == Err("InvalidFilter", "filter is not supported")
OnlySingleEq == Err("InvalidFilter", "only a single Eq filter is applicable")

\* updateValueByEqFilter is about to run on the Eq filter of the query
AtEqFilter == AddMode /\ Running("updateValueByEqFilter", "start")

LeftNotPath == ~IsPath(Left(NodeAt(query, Top.qi)))
TrailingNotPath == ~IsPath(NodeAt(query, Top.qi + 1))
LongTrail ==
    /\ IsPath(NodeAt(query, Top.qi + 1))
    /\ ~IsNil(NodeAt(query, Top.qi + 2))

(* C12 as stated: in add-by-equality-filter mode an equality filter whose  *)
(* left operand is no bare path, or whose trailing segment is absent or no *)
(* bare path, returns InvalidFilter 'filter is not supported'; a trailing  *)
(* chain of more than one segment returns InvalidFilter 'only a single Eq  *)
(* filter is applicable'; the callback is called in neither case.          *)
C12_OperandErrors ==
    [][AtEqFilter =>
        /\ LeftNotPath \/ TrailingNotPath => ret' = NotSupported /\ cbLog' = cbLog
        /\ LongTrail => ret' = OnlySingleEq /\ cbLog' = cbLog]_vars

(* C12, amended: a trailing chain of more than one segment returns         *)
(* InvalidFilter 'only a single Eq filter is applicable', whatever the     *)
(* left operand is; otherwise a left operand that is no bare path, or a    *)
(* trailing segment that is absent or no bare path, returns InvalidFilter  *)
(* 'filter is not supported'; the callback is never called and the entry   *)
(* point returns that error.                                               *)
C12_OperandErrorsInOrder ==
    /\ [][AtEqFilter =>
            /\ LongTrail => ret' = OnlySingleEq /\ cbLog' = cbLog
            /\ ~LongTrail /\ (LeftNotPath \/ TrailingNotPath) =>
                 ret' = NotSupported /\ cbLog' = cbLog]_vars
    /\ [](AddMode /\ ret \in {NotSupported, OnlySingleEq} => cbLog = <<>>)
    /\ [](AddMode /\ Returned /\ ret \in {NotSupported, OnlySingleEq} => result = ret)

\* a literal as left operand and two trailing segments: the chain is reported
C12_Witness ==
    /\ AddMode
    /\ query = <<PathNode("emails"), Op(Eq, Literal(Work), Literal(Work)),
                 PathNode("value"), PathNode("x")>>
    /\ result = OnlySingleEq
    /\ cbLog = <<>>

----------------------------------------------------------------------------
(* Right operand of the equality filter                                    *)

\* the query's filter is an equality whose right operand is no literal
NonLiteralEqFilter ==
    /\ Len(query) >= 2
    /\ IsRootOfFilter(query[2])
    /\ Token(query[2]) = Eq
    /\ ~IsLiteral(Right(query[2]))

(* C13: in add-by-equality-filter mode an equality filter whose right      *)
(* operand is no literal is not an implicit add: updateValueByEqFilter     *)
(* never runs on it, no composed element reaches the callback, and the     *)
(* filter is handled by traverseQualifiedElements.                         *)
C13_NonLiteralFallsThrough ==
    AddMode /\ NonLiteralEqFilter =>
        /\ \A i \in 1..Len(stack) : stack[i].fn # "updateValueByEqFilter"
        /\ \A i \in 1..Len(cbLog) : cbLog[i].value = <<>>

----------------------------------------------------------------------------
(* Type discovery works on a clone                                         *)

\* the composition has succeeded and callbackUpdatedValue is about to be called
BeforeUpdateCallback == AddMode /\ Running("updateValueByEqFilter", "callback")

\* the literal went through type discovery and composition failed on it
DiscoveryFailed ==
    /\ AddMode
    /\ ret.kind = "InvalidFilter"
    /\ ret.detail \in {"invalid filter", "invalid filter value"}

(* C14: from the entry of updateValueByEqFilter until the callback is      *)
(* called or an error is returned, the collection (elements and length)    *)
(* and the traverser's navigator (position, depth, error) do not change:   *)
(* the empty element of type discovery lives on a clone only, also when    *)
(* the composition fails.                                                  *)
C14_DiscoveryOnClone ==
    /\ [][Running("updateValueByEqFilter", "start") =>
            /\ emails' = emails
            /\ nav' = nav
            /\ navErr' = navErr
            /\ cbLog' = cbLog]_vars
    /\ [](BeforeUpdateCallback =>
            /\ emails = entryEmails
            /\ nav = Collection
            /\ Len(nav) = Top.d0
            /\ navErr = NoErr)
    /\ [](DiscoveryFailed => emails = entryEmails /\ navErr = NoErr /\ cbLog = <<>>)

\* the literal was normalized on the clone of a non-empty collection
C14_Witness ==
    /\ BeforeUpdateCallback
    /\ IsLiteral(Right(NodeAt(query, Top.qi)))
    /\ Len(emails) = MaxElems
    /\ emails = entryEmails

\* type discovery failed on the literal and left the collection as it was
C14_WitnessFailed ==
    /\ DiscoveryFailed
    /\ Returned
    /\ emails = entryEmails

----------------------------------------------------------------------------
(* The composed value                                                      *)

\* names and literal of the filter updateValueByEqFilter is running on
KeyName == Token(Left(NodeAt(query, Top.qi)))
TargetName == Token(NodeAt(query, Top.qi + 1))
RightOperand == Right(NodeAt(query, Top.qi))
NormalizedLiteral ==
    normalize(AttrType(Append(DotNames(nav), KeyName)), Token(RightOperand)).v

\* the value the last callback was handed
LastValue(log) == log[Len(log)].value

(* C15 as stated: whenever the composition succeeds the callback is handed *)
(* a one-element list whose element maps the trailing segment's name to    *)
(* the caller's value and the filter's left operand name to the normalized *)
(* literal, for every pair of names, the two names being the same          *)
(* included.                                                               *)
C15_BothEntries ==
    [][BeforeUpdateCallback =>
        /\ Len(cbLog') = Len(cbLog) + 1
        /\ Len(LastValue(cbLog')) = 1
        /\ LET e == LastValue(cbLog')[1]
           IN  /\ DOMAIN e = {TargetName, KeyName}
               /\ e[TargetName] = t.valueByEqFilter
               /\ e[KeyName] = NormalizedLiteral]_vars

(* What the code composes: the element has the trailing segment's name    *)
(* and the filter's left operand name as its only names; the left operand  *)
(* name maps to the normalized literal when the right operand is a literal *)
(* and to nil when it is not; the trailing segment's name maps to the      *)
(* caller's value only when the two names differ.                          *)
C15_FilterEntryWins ==
    [][BeforeUpdateCallback =>
        /\ Len(cbLog') = Len(cbLog) + 1
        /\ Len(LastValue(cbLog')) = 1
        /\ LET e == LastValue(cbLog')[1]
           IN  /\ DOMAIN e = {TargetName, KeyName}
               /\ e[KeyName] = IF IsLiteral(RightOperand)
                               THEN NormalizedLiteral ELSE NilVal
               /\ TargetName # KeyName => e[TargetName] = t.valueByEqFilter]_vars

\* emails[type eq "work"].type: one entry, the normalized literal
C15_Witness ==
    /\ AddMode
    /\ query = <<PathNode("emails"), TypeEq(Work), PathNode("type")>>
    /\ cbLog = <<[pos |-> Collection,
                  value |-> <<[n \in {"type"} |-> S("work")]>>]>>

\* emails[type eq value].value: no literal, the filter's entry is nil
C15_WitnessNoLiteral ==
    /\ AddMode
    /\ NonLiteralEqFilter
    /\ Len(cbLog) = 1
    /\ cbLog[1].value = <<[n \in {"type", "value"} |->
                             IF n = "type" THEN NilVal ELSE t.valueByEqFilter]>>

----------------------------------------------------------------------------
(* Termination and recursion depth                                         *)

\* calls of traverse below the entry point's own call
RecursionDepth ==
    Cardinality({i \in 1..Len(stack) : stack[i].fn = "traverse"}) - 1

\* multi-valued levels the navigator has descended into
LevelsDescended == Len(SelectSeq(nav, LAMBDA s : s.k = "at"))

\* selected-element traversal re-enters traverse on the node it was called
\* with: the element it visits is not multi-valued, so the re-entry moves on
SameNodeReentry ==
    \A i \in 2..Len(stack) :
        stack[i].fn = "traverse" /\ stack[i - 1].fn = "traverseSelectedElements"
        => /\ stack[i].qi = stack[i - 1].qi
           /\ (i = Len(stack) => ~MultiValued(nav))

DepthBound == RecursionDepth <= Len(query) + LevelsDescended

\* the bound is attained: at the callback of emails.value on an element
DepthBoundMet ==
    /\ Running("traverse", "start")
    /\ RecursionDepth = Len(query) + LevelsDescended
    /\ LevelsDescended = 1

\* the call unwinds by a run-time panic instead of returning a value
Panics == ret.kind = "Panic" \/ result.kind = "Panic"

(* C16: every entry point returns success or an error; selected-element    *)
(* traversal recurses on the same query node and each visited element is   *)
(* not multi-valued; the recursion depth never exceeds the number of query *)
(* segments plus the number of multi-valued levels descended.              *)
C16_ReturnsWithinDepth ==
    /\ ~Panics
    /\ SameNodeReentry
    /\ DepthBound

\* every run reaches the end of the entry point
SpecFair == Spec /\ WF_vars(Next)
EventuallyReturns == <>Returned

----------------------------------------------------------------------------
(* Where the default traverse calls back                                   *)

\* one callback per element of the collection, in order, on its sub-attribute
PerElementCallbacks(coll, sub) ==
    [j \in 1..Len(coll) |-> [pos |-> SubOf(j - 1, sub), value |-> <<>>]]

\* a filter-free path through the collection to a sub-attribute of its elements
ThroughCollection ==
    /\ Len(query) = 2
    /\ query[1] = PathNode("emails")
    /\ IsPath(query[2])
    /\ Token(query[2]) \in ElemAttrs

\* a path whose last segment names the collection
EndsOnCollection == query = <<PathNode("emails")>>

(* C17: under default traverse the callback is called exactly where the    *)
(* remaining query is empty, at the navigator's position and without a     *)
(* value, and nowhere else; a filter-free path through the collection to a *)
(* sub-attribute calls back once per element, in order; a path that ends   *)
(* on the multi-valued attribute calls back exactly once, on the           *)
(* collection node, and not on its elements.                               *)
C17_CallbackAtEndOfQuery ==
    /\ [][DefaultMode =>
            /\ AtEndOfQuery => cbLog' = Append(cbLog, [pos |-> nav, value |-> <<>>])
            /\ ~AtEndOfQuery => cbLog' = cbLog]_vars
    /\ [](DefaultMode /\ ThroughCollection /\ Returned =>
            /\ IsPrefix(cbLog, PerElementCallbacks(entryEmails, Token(query[2])))
            /\ result = NoErr =>
                 cbLog = PerElementCallbacks(entryEmails, Token(query[2])))
    /\ [](DefaultMode /\ EndsOnCollection /\ Returned =>
            cbLog = <<[pos |-> Collection, value |-> <<>>]>>)

\* emails of two elements: one callback, on the collection
C17_Witness ==
    /\ DefaultMode
    /\ EndsOnCollection
    /\ Returned
    /\ Len(entryEmails) = MaxElems
    /\ cbLog = <<[pos |-> Collection, value |-> <<>>]>>

\* emails.value over two elements: one callback per element
C17_WitnessPerElement ==
    /\ DefaultMode
    /\ query = <<PathNode("emails"), PathNode("value")>>
    /\ result = NoErr
    /\ Len(entryEmails) = MaxElems
    /\ cbLog = PerElementCallbacks(entryEmails, "value")

====
